---- MODULE Spec2Model ----
(***************************************************************************)
(* Frontend chunk manager of neuroglancer                                  *)
(* (src/neuroglancer/chunk_manager/frontend.ts):                           *)
(*   - Chunk: tier state with copyToGPU / freeGPUMemory,                   *)
(*   - ChunkQueueManager: the intrusive linked queue of pending            *)
(*     'Chunk.update' records, drained one record per timer callback       *)
(*     under chunkUpdateDeadline,                                          *)
(*   - ChunkSource: the map from chunk key to Chunk,                       *)
(*   - ChunkManager.getChunkSource: memoized construction of sources.      *)
(***************************************************************************)
EXTENDS Integers, Sequences, FiniteSets, TLC

\* ------------------------------------------------------------------ bounds
\* Number of 'Chunk.update' records the backend sends in one behaviour.
MaxUpdates == 3
\* The same, in the behaviours where the deadline and the clock vary.
MaxDeadlineUpdates == 2
\* Date.now() is sampled at 0, chunkUpdateDelay, ..., MaxTicks * chunkUpdateDelay.
MaxTicks == 2
\* Number of getChunkSource calls in one behaviour.
MaxCalls == 2

\* ------------------------------------------------------- program constants
\* ChunkQueueManager.chunkUpdateDelay
chunkUpdateDelay == 30
\* null reference (pendingChunkUpdates, pendingChunkUpdatesTail, nextUpdate);
\* records are referred to by their position in 'updates', from 1.
Null == 0
\* chunkUpdateDeadline = null
NoDeadline == -1

\* ChunkState members used by the frontend; QUEUED stands for the members of
\* the enum that the switch in processPendingChunkUpdates does not handle.
GPU_MEMORY == "GPU_MEMORY"
SYSTEM_MEMORY == "SYSTEM_MEMORY"
EXPIRED == "EXPIRED"
QUEUED == "QUEUED"
ChunkState == {GPU_MEMORY, SYSTEM_MEMORY, QUEUED, EXPIRED}

\* The chunk sources registered with the rpc object, and the keys of chunks.
Sources == {"s1", "s2"}
ChunkIds == {"c1", "c2"}
\* Sources whose class overrides getChunk (frontend-created chunks); the
\* others inherit ChunkSource.getChunk.
OverridesGetChunk == {"s1"}

Times == {k * chunkUpdateDelay : k \in 0..MaxTicks}

VARIABLES
  now,                      \* Date.now()
  chunkUpdateDeadline,      \* ChunkQueueManager.chunkUpdateDeadline
  timers,                   \* outstanding setTimeout(processPendingChunkUpdates) calls
  updates,                  \* every record received, in arrival order, with its nextUpdate link
  pendingChunkUpdates,      \* head of the queue
  pendingChunkUpdatesTail,  \* tail of the queue
  chunks,                   \* chunks[source]: ChunkSource.chunks
  capacities,               \* the AvailableCapacity objects given to the constructor
  dispatchCount,            \* number of visibleChunksChanged.dispatch() calls
  applied,                  \* records whose processing ran to the dequeue, in order
  thrown,                   \* errors thrown out of a timer callback, in order
  lastTick,                 \* what the most recent processPendingChunkUpdates call did
  memoize,                  \* ChunkManager.memoize: key string -> source
  objectIds,                \* ids getObjectId has given to constructor functions
  constructed,              \* the sources built by getChunkSource, in order
  sourceCalls               \* the getChunkSource calls made, with what each returned

queueVars == <<now, chunkUpdateDeadline, timers, updates, pendingChunkUpdates,
               pendingChunkUpdatesTail, chunks, capacities, dispatchCount, applied,
               thrown, lastTick>>
managerVars == <<memoize, objectIds, constructed, sourceCalls>>
vars == <<queueVars, managerVars>>

\* --------------------------------------------------------------- helpers
RemoveAt(s, i) == [j \in 1..(Len(s) - 1) |-> IF j < i THEN s[j] ELSE s[j + 1]]

NoTick == [kind |-> "none", update |-> Null, old |-> "none", calls |-> <<>>,
           dispatched |-> 0, error |-> "none"]

\* ------------------------------------------------------------------ Chunk
\* new Chunk(source): state = ChunkState.SYSTEM_MEMORY. 'uid' tells chunk
\* objects apart (the position of the record that created it).
NewChunk(source, uid) == [source |-> source, state |-> SYSTEM_MEMORY, uid |-> uid]

copyToGPU_KeepsState(chunk) == chunk

copyToGPU(chunk) == [chunk EXCEPT !.state = GPU_MEMORY]

freeGPUMemory_KeepsState(chunk) == chunk

freeGPUMemory(chunk) == [chunk EXCEPT !.state = SYSTEM_MEMORY]

\* ------------------------------------------------------------ ChunkSource
deleteChunk_KeepsChunk(m, key) == m

deleteChunk(m, key) == [k \in (DOMAIN m) \ {key} |-> m[k]]

addChunk_KeepsExisting(m, key, chunk) ==
  [k \in (DOMAIN m) \cup {key} |-> IF k \in DOMAIN m THEN m[k] ELSE chunk]

addChunk(m, key, chunk) == [k \in (DOMAIN m) \cup {key} |-> IF k = key THEN chunk ELSE m[k]]

\* ------------------------------------------------------ ChunkQueueManager
\* scheduleChunkUpdate called when Date.now() reads t: the timer it adds.
scheduleChunkUpdateAt_AlwaysDelays(t) ==
  [delay |-> chunkUpdateDelay, due |-> t + chunkUpdateDelay]

scheduleChunkUpdateAt(t) ==
  LET deadline == chunkUpdateDeadline
      delay == IF deadline = NoDeadline \/ t < deadline THEN 0 ELSE chunkUpdateDelay
  IN [delay |-> delay, due |-> t + delay]

scheduleChunkUpdate == scheduleChunkUpdateAt(now)

\* The chunk a record refers to (let chunk ... else branch): made by
\* source.getChunk and added, or looked up. ChunkSource.getChunk throws; a
\* class that overrides it returns a new chunk. Reading chunk.state of a
\* missing chunk throws a TypeError.
ResolveChunk_DefaultCreates(m, update, u) ==
  LET key == update.id IN
  IF update.new THEN
    [m |-> addChunk(m, key, NewChunk(update.source, u)),
     calls |-> <<"getChunk", "addChunk">>, error |-> "none"]
  ELSE IF key \in DOMAIN m THEN [m |-> m, calls |-> <<"chunks.get">>, error |-> "none"]
  ELSE [m |-> m, calls |-> <<"chunks.get">>, error |-> "TypeError"]

ResolveChunk(m, update, u) ==
  LET key == update.id IN
  IF update.new THEN
    IF update.source \in OverridesGetChunk THEN
      [m |-> addChunk(m, key, NewChunk(update.source, u)),
       calls |-> <<"getChunk", "addChunk">>, error |-> "none"]
    ELSE [m |-> m, calls |-> <<"getChunk">>, error |-> "Not implemented."]
  ELSE IF key \in DOMAIN m THEN [m |-> m, calls |-> <<"chunks.get">>, error |-> "none"]
  ELSE [m |-> m, calls |-> <<"chunks.get">>, error |-> "TypeError"]

\* if (newState !== oldState) switch (newState) ...
Transition_DispatchesOnFree(m, key, newState) ==
  LET chunk == m[key]
      oldState == chunk.state
  IN
  IF newState = oldState THEN
    [m |-> m, calls |-> <<>>, dispatched |-> 0, error |-> "none"]
  ELSE IF newState = GPU_MEMORY THEN
    [m |-> [m EXCEPT ![key] = copyToGPU(chunk)], calls |-> <<"copyToGPU", "dispatch">>,
     dispatched |-> 1, error |-> "none"]
  ELSE IF newState = SYSTEM_MEMORY THEN
    [m |-> [m EXCEPT ![key] = freeGPUMemory(chunk)],
     calls |-> <<"freeGPUMemory", "dispatch">>, dispatched |-> 1, error |-> "none"]
  ELSE
    [m |-> m, calls |-> <<>>, dispatched |-> 0,
     error |-> "INTERNAL ERROR: Invalid chunk state"]

Transition_IgnoresInvalid(m, key, newState) ==
  LET chunk == m[key]
      oldState == chunk.state
  IN
  IF newState = oldState THEN
    [m |-> m, calls |-> <<>>, dispatched |-> 0, error |-> "none"]
  ELSE IF newState = GPU_MEMORY THEN
    [m |-> [m EXCEPT ![key] = copyToGPU(chunk)], calls |-> <<"copyToGPU", "dispatch">>,
     dispatched |-> 1, error |-> "none"]
  ELSE IF newState = SYSTEM_MEMORY THEN
    [m |-> [m EXCEPT ![key] = freeGPUMemory(chunk)], calls |-> <<"freeGPUMemory">>,
     dispatched |-> 0, error |-> "none"]
  ELSE
    [m |-> m, calls |-> <<>>, dispatched |-> 0, error |-> "none"]

Transition(m, key, newState) ==
  LET chunk == m[key]
      oldState == chunk.state
  IN
  IF newState = oldState THEN
    [m |-> m, calls |-> <<>>, dispatched |-> 0, error |-> "none"]
  ELSE IF newState = GPU_MEMORY THEN
    [m |-> [m EXCEPT ![key] = copyToGPU(chunk)], calls |-> <<"copyToGPU", "dispatch">>,
     dispatched |-> 1, error |-> "none"]
  ELSE IF newState = SYSTEM_MEMORY THEN
    [m |-> [m EXCEPT ![key] = freeGPUMemory(chunk)], calls |-> <<"freeGPUMemory">>,
     dispatched |-> 0, error |-> "none"]
  ELSE
    [m |-> m, calls |-> <<>>, dispatched |-> 0,
     error |-> "INTERNAL ERROR: Invalid chunk state"]

\* What processing record number u does to the chunk maps 'ch': the maps it
\* leaves, the calls it made, and the error it threw, if any. 'old' is the
\* state of the chunk under the record's key before.
ApplyUpdate_ResolvesBeforeExpiry(ch, u) ==
  LET update == updates[u]
      source == update.source
      key == update.id
      m == ch[source]
      old == IF key \in DOMAIN m THEN m[key].state ELSE "absent"
      r == ResolveChunk(m, update, u)
  IN
  IF r.error # "none" THEN
    [chunks |-> ch, old |-> old, calls |-> r.calls, dispatched |-> 0, error |-> r.error]
  ELSE IF update.state = EXPIRED THEN
    [chunks |-> [ch EXCEPT ![source] = deleteChunk(r.m, key)], old |-> old,
     calls |-> r.calls \o <<"deleteChunk">>, dispatched |-> 0, error |-> "none"]
  ELSE
    LET t == Transition(r.m, key, update.state) IN
    [chunks |-> [ch EXCEPT ![source] = t.m], old |-> old, calls |-> r.calls \o t.calls,
     dispatched |-> t.dispatched, error |-> t.error]

ApplyUpdate(ch, u) ==
  LET update == updates[u]
      source == update.source
      key == update.id
      newState == update.state
      m == ch[source]
      old == IF key \in DOMAIN m THEN m[key].state ELSE "absent"
  IN
  IF newState = EXPIRED THEN
    [chunks |-> [ch EXCEPT ![source] = deleteChunk(m, key)], old |-> old,
     calls |-> <<"deleteChunk">>, dispatched |-> 0, error |-> "none"]
  ELSE
    LET r == ResolveChunk(m, update, u) IN
    IF r.error # "none" THEN
      [chunks |-> ch, old |-> old, calls |-> r.calls, dispatched |-> 0, error |-> r.error]
    ELSE
      LET t == Transition(r.m, key, newState) IN
      [chunks |-> [ch EXCEPT ![source] = t.m], old |-> old, calls |-> r.calls \o t.calls,
       dispatched |-> t.dispatched, error |-> t.error]

\* The deadline has passed: wait chunkUpdateDelay and try again. 'rest' are
\* the other outstanding timers, 'update' the head of the queue.
DeferTick_DropsHead(rest, update) ==
  /\ timers' = Append(rest, [delay |-> chunkUpdateDelay, due |-> now + chunkUpdateDelay])
  /\ lastTick' = [NoTick EXCEPT !.kind = "deferred", !.update = update]
  /\ pendingChunkUpdates' = IF update = Null THEN Null ELSE updates[update].nextUpdate
  /\ UNCHANGED <<updates, pendingChunkUpdatesTail, chunks, dispatchCount, applied, thrown>>

DeferTick_NoRetry(rest, update) ==
  /\ timers' = rest
  /\ lastTick' = [NoTick EXCEPT !.kind = "deferred", !.update = update]
  /\ UNCHANGED <<updates, pendingChunkUpdates, pendingChunkUpdatesTail, chunks,
                 dispatchCount, applied, thrown>>

DeferTick(rest, update) ==
  /\ timers' = Append(rest, [delay |-> chunkUpdateDelay, due |-> now + chunkUpdateDelay])
  /\ lastTick' = [NoTick EXCEPT !.kind = "deferred", !.update = update]
  /\ UNCHANGED <<updates, pendingChunkUpdates, pendingChunkUpdatesTail, chunks,
                 dispatchCount, applied, thrown>>

\* The end of processPendingChunkUpdates: the head record is taken off the
\* queue, and scheduleChunkUpdate is called if a record is left. Date.now()
\* reads t there.
Dequeue_SkipsRecord(rest, update, t) ==
  LET following == updates[update].nextUpdate
      nextUpdate == IF following = Null THEN Null ELSE updates[following].nextUpdate
  IN
  /\ pendingChunkUpdates' = nextUpdate
  /\ IF nextUpdate # Null THEN
       /\ timers' = Append(rest, scheduleChunkUpdateAt(t))
       /\ UNCHANGED pendingChunkUpdatesTail
     ELSE
       /\ timers' = rest
       /\ pendingChunkUpdatesTail' = Null

Dequeue_KeepsTail(rest, update, t) ==
  LET nextUpdate == updates[update].nextUpdate IN
  /\ pendingChunkUpdates' = nextUpdate
  /\ IF nextUpdate # Null THEN
       /\ timers' = Append(rest, scheduleChunkUpdateAt(t))
       /\ UNCHANGED pendingChunkUpdatesTail
     ELSE
       /\ timers' = rest
       /\ UNCHANGED pendingChunkUpdatesTail

Dequeue(rest, update, t) ==
  LET nextUpdate == updates[update].nextUpdate IN
  /\ pendingChunkUpdates' = nextUpdate
  /\ IF nextUpdate # Null THEN
       /\ timers' = Append(rest, scheduleChunkUpdateAt(t))
       /\ UNCHANGED pendingChunkUpdatesTail
     ELSE
       /\ timers' = rest
       /\ pendingChunkUpdatesTail' = Null

\* The record at the head is processed and taken off the queue; an error
\* thrown on the way leaves the callback at once. The clock reads t when the
\* record has been applied.
ProcessTick(rest, update, t) ==
  IF update = Null THEN
    \* update['source'] of null
    /\ timers' = rest
    /\ thrown' = Append(thrown, "TypeError")
    /\ lastTick' = [NoTick EXCEPT !.kind = "threw", !.error = "TypeError"]
    /\ UNCHANGED <<updates, pendingChunkUpdates, pendingChunkUpdatesTail, chunks,
                   dispatchCount, applied>>
  ELSE
    LET r == ApplyUpdate(chunks, update) IN
    /\ chunks' = r.chunks
    /\ dispatchCount' = dispatchCount + r.dispatched
    /\ lastTick' = [kind |-> IF r.error = "none" THEN "applied" ELSE "threw",
                    update |-> update, old |-> r.old, calls |-> r.calls,
                    dispatched |-> r.dispatched, error |-> r.error]
    /\ UNCHANGED updates
    /\ IF r.error # "none" THEN
         /\ timers' = rest
         /\ thrown' = Append(thrown, r.error)
         /\ UNCHANGED <<pendingChunkUpdates, pendingChunkUpdatesTail, applied>>
       ELSE
         /\ applied' = Append(applied, update)
         /\ thrown' = thrown
         /\ Dequeue(rest, update, t)

\* A timer fires: processPendingChunkUpdates. Date.now() reads now at the
\* top of the callback and t, no earlier, once the record has been applied.
processPendingChunkUpdates_DeadlineTestReversed(i, t) ==
  /\ i \in DOMAIN timers
  /\ timers[i].due <= now
  /\ t >= now
  /\ LET deadline == chunkUpdateDeadline IN
     IF deadline # NoDeadline /\ now < deadline
     THEN t = now /\ DeferTick(RemoveAt(timers, i), pendingChunkUpdates)
     ELSE ProcessTick(RemoveAt(timers, i), pendingChunkUpdates, t)
  /\ now' = t
  /\ UNCHANGED <<chunkUpdateDeadline, capacities, managerVars>>

processPendingChunkUpdates(i, t) ==
  /\ i \in DOMAIN timers
  /\ timers[i].due <= now
  /\ t >= now
  /\ LET deadline == chunkUpdateDeadline IN
     IF deadline # NoDeadline /\ now > deadline
     THEN t = now /\ DeferTick(RemoveAt(timers, i), pendingChunkUpdates)
     ELSE ProcessTick(RemoveAt(timers, i), pendingChunkUpdates, t)
  /\ now' = t
  /\ UNCHANGED <<chunkUpdateDeadline, capacities, managerVars>>

\* The record sent with 'Chunk.update', as queued.
Queued(x) == [source |-> x.source, id |-> x.id, state |-> x.state, new |-> x.new,
              nextUpdate |-> Null]

ChunkUpdate_PushFront(x) ==
  /\ LET n == Len(updates) + 1
         pendingTail == pendingChunkUpdatesTail
     IN
     IF pendingTail = Null THEN
       /\ updates' = Append(updates, Queued(x))
       /\ pendingChunkUpdates' = n
       /\ pendingChunkUpdatesTail' = n
       /\ timers' = Append(timers, scheduleChunkUpdate)
     ELSE
       /\ updates' = Append(updates, [Queued(x) EXCEPT !.nextUpdate = pendingChunkUpdates])
       /\ pendingChunkUpdates' = n
       /\ UNCHANGED <<pendingChunkUpdatesTail, timers>>
  /\ UNCHANGED <<now, chunkUpdateDeadline, chunks, capacities, dispatchCount, applied,
                 thrown, lastTick, managerVars>>

\* registerRPC('Chunk.update'): the backend's record x arrives.
ChunkUpdate_AlwaysSchedules(x) ==
  /\ LET n == Len(updates) + 1
         pendingTail == pendingChunkUpdatesTail
         rec == Queued(x)
     IN
     IF pendingTail = Null THEN
       /\ updates' = Append(updates, rec)
       /\ pendingChunkUpdates' = n
       /\ pendingChunkUpdatesTail' = n
       /\ timers' = Append(timers, scheduleChunkUpdate)
     ELSE
       /\ updates' = Append([updates EXCEPT ![pendingTail].nextUpdate = n], rec)
       /\ pendingChunkUpdatesTail' = n
       /\ timers' = Append(timers, scheduleChunkUpdate)
       /\ UNCHANGED pendingChunkUpdates
  /\ UNCHANGED <<now, chunkUpdateDeadline, chunks, capacities, dispatchCount, applied,
                 thrown, lastTick, managerVars>>

ChunkUpdate_DropsWhenPending(x) ==
  /\ LET n == Len(updates) + 1
         pendingTail == pendingChunkUpdatesTail
         rec == Queued(x)
     IN
     IF pendingTail = Null THEN
       /\ updates' = Append(updates, rec)
       /\ pendingChunkUpdates' = n
       /\ pendingChunkUpdatesTail' = n
       /\ timers' = Append(timers, scheduleChunkUpdate)
     ELSE
       /\ updates' = Append(updates, rec)
       /\ pendingChunkUpdatesTail' = n
       /\ UNCHANGED <<pendingChunkUpdates, timers>>
  /\ UNCHANGED <<now, chunkUpdateDeadline, chunks, capacities, dispatchCount, applied,
                 thrown, lastTick, managerVars>>

ChunkUpdate(x) ==
  /\ LET n == Len(updates) + 1
         pendingTail == pendingChunkUpdatesTail
         rec == Queued(x)
     IN
     IF pendingTail = Null THEN
       /\ updates' = Append(updates, rec)
       /\ pendingChunkUpdates' = n
       /\ pendingChunkUpdatesTail' = n
       /\ timers' = Append(timers, scheduleChunkUpdate)
     ELSE
       /\ updates' = Append([updates EXCEPT ![pendingTail].nextUpdate = n], rec)
       /\ pendingChunkUpdatesTail' = n
       /\ UNCHANGED <<pendingChunkUpdates, timers>>
  /\ UNCHANGED <<now, chunkUpdateDeadline, chunks, capacities, dispatchCount, applied,
                 thrown, lastTick, managerVars>>

\* ----------------------------------------------------------- ChunkManager
\* A JavaScript object is the sequence of its <<key, value>> properties in
\* insertion order. A value is a number, a string (the sequence of its
\* pieces), undefined or an object.
Num(n) == [t |-> "num", n |-> n]
Str(x) == [t |-> "str", s |-> x]
Undefined == [t |-> "undefined"]
Obj(o) == [t |-> "obj", o |-> o]

Keys(o) == {o[i][1] : i \in DOMAIN o}
Get(o, k) == IF k \in Keys(o) THEN (CHOOSE p \in {o[i] : i \in DOMAIN o} : p[1] = k)[2]
             ELSE Undefined
\* o[k] = v
SetProperty(o, k, v) ==
  IF k \in Keys(o) THEN [i \in DOMAIN o |-> IF o[i][1] = k THEN <<k, v>> ELSE o[i]]
  ELSE Append(o, <<k, v>>)

\* Array.prototype.sort on the property names that occur.
SortedKeyNames == <<"a", "b", "constructorId", "parameters", "x">>

\* JSON.stringify of a number that occurs.
NumberString(n) == ToString(n)

\* stableStringify (neuroglancer/util/json): properties in sorted key order,
\* undefined ones left out; the string is the sequence of its tokens.
RECURSIVE stableStringify(_)
RECURSIVE StringifyProperties(_, _, _)
StringifyProperties(o, i, first) ==
  IF i > Len(SortedKeyNames) THEN <<>>
  ELSE
    LET key == SortedKeyNames[i]
        value == Get(o, key)
    IN
    IF value.t = "undefined" THEN StringifyProperties(o, i + 1, first)
    ELSE (IF first THEN <<>> ELSE <<",">>)
         \o <<"\"", key, "\"", ":">> \o stableStringify(value)
         \o StringifyProperties(o, i + 1, FALSE)

stableStringify(x) ==
  IF x.t = "obj" THEN <<"{">> \o StringifyProperties(x.o, 1, TRUE) \o <<"}">>
  ELSE IF x.t = "num" THEN <<NumberString(x.n)>>
  ELSE IF x.t = "str" THEN <<"\"">> \o x.s \o <<"\"">>
  ELSE <<"undefined">>

\* The constructor functions: ChunkSource itself and two classes returned by
\* WithParameters(ChunkSource, ...).
Constructors == {"ChunkSource", "WithParameters1", "WithParameters2"}
WithParametersClasses == {"WithParameters1", "WithParameters2"}

\* ChunkSource.encodeOptions
ChunkSource_encodeOptions(options) == <<>>

\* WithParameters(...).C.encodeOptions
C_encodeOptions_LeavesOutParameters(options) == ChunkSource_encodeOptions(options)

C_encodeOptions(options) ==
  LET encoding == ChunkSource_encodeOptions(options)
  IN SetProperty(encoding, "parameters", Get(options, "parameters"))

encodeOptions(constructorFunction, options) ==
  IF constructorFunction \in WithParametersClasses THEN C_encodeOptions(options)
  ELSE ChunkSource_encodeOptions(options)

\* getObjectId (neuroglancer/util/object_id): the ids after asking for x's,
\* and the string returned.
ObjectIdsWith(x) ==
  IF x \in DOMAIN objectIds THEN objectIds
  ELSE [y \in (DOMAIN objectIds) \cup {x} |->
          IF y = x THEN Cardinality(DOMAIN objectIds) ELSE objectIds[y]]
ObjectIdString(n) == <<"o", NumberString(n)>>

\* The key getChunkSource memoizes under.
SourceKey(constructorFunction, options) ==
  LET keyObject == SetProperty(encodeOptions(constructorFunction, options), "constructorId",
                               Str(ObjectIdString(ObjectIdsWith(constructorFunction)[constructorFunction])))
  IN stableStringify(Obj(keyObject))

\* ChunkManager.getChunkSource, with StringMemoize.get: the source cached
\* under the key, or else a newly constructed one, cached. A source is
\* named by its position in 'constructed'.
getChunkSource_AlwaysConstructs(constructorFunction, options) ==
  LET key == SourceKey(constructorFunction, options)
      newSource == Len(constructed) + 1
  IN
  /\ objectIds' = ObjectIdsWith(constructorFunction)
  /\ memoize' = [k \in (DOMAIN memoize) \cup {key} |->
                   IF k = key THEN newSource ELSE memoize[k]]
  /\ constructed' = Append(constructed, [constructorFunction |-> constructorFunction,
                                         options |-> options])
  /\ sourceCalls' = Append(sourceCalls, [constructorFunction |-> constructorFunction,
                                         options |-> options, source |-> newSource,
                                         isNew |-> TRUE])
  /\ UNCHANGED queueVars

getChunkSource(constructorFunction, options) ==
  LET key == SourceKey(constructorFunction, options)
      hit == key \in DOMAIN memoize
      newSource == Len(constructed) + 1
      source == IF hit THEN memoize[key] ELSE newSource
  IN
  /\ objectIds' = ObjectIdsWith(constructorFunction)
  /\ memoize' = IF hit THEN memoize
                ELSE [k \in (DOMAIN memoize) \cup {key} |->
                        IF k = key THEN newSource ELSE memoize[k]]
  /\ constructed' = IF hit THEN constructed
                    ELSE Append(constructed, [constructorFunction |-> constructorFunction,
                                              options |-> options])
  /\ sourceCalls' = Append(sourceCalls, [constructorFunction |-> constructorFunction,
                             options |-> options, source |-> source, isNew |-> ~hit])
  /\ UNCHANGED queueVars

\* ------------------------------------------------------------ environment
\* The owner of the queue manager assigns chunkUpdateDeadline.
SetDeadline(d) ==
  /\ d # chunkUpdateDeadline
  /\ chunkUpdateDeadline' = d
  /\ UNCHANGED <<now, timers, updates, pendingChunkUpdates, pendingChunkUpdatesTail,
                 chunks, capacities, dispatchCount, applied, thrown, lastTick,
                 managerVars>>

\* Time passes.
AdvanceTime(t) ==
  /\ t > now
  /\ now' = t
  /\ UNCHANGED <<chunkUpdateDeadline, timers, updates, pendingChunkUpdates,
                 pendingChunkUpdatesTail, chunks, capacities, dispatchCount, applied,
                 thrown, lastTick, managerVars>>

\* --------------------------------------------------------- specifications
\* The capacities handed to the ChunkQueueManager constructor.
InitialCapacities ==
  [gpuMemory |-> [used |-> 0, total |-> 2],
   systemMemory |-> [used |-> 0, total |-> 2],
   download |-> [used |-> 0, total |-> 2]]

Init ==
  /\ now = 0
  /\ chunkUpdateDeadline = NoDeadline
  /\ timers = <<>>
  /\ updates = <<>>
  /\ pendingChunkUpdates = Null
  /\ pendingChunkUpdatesTail = Null
  /\ chunks = [s \in Sources |-> <<>>]
  /\ capacities = InitialCapacities
  /\ dispatchCount = 0
  /\ applied = <<>>
  /\ thrown = <<>>
  /\ lastTick = NoTick
  /\ memoize = <<>>
  /\ objectIds = <<>>
  /\ constructed = <<>>
  /\ sourceCalls = <<>>

\* The records the backend may send. A record names a registered source (the
\* handler reads source.chunkManager before it queues the record).
Updates ==
  {x \in [source : Sources, id : ChunkIds, state : ChunkState, new : BOOLEAN] :
     x.source \notin OverridesGetChunk => x.id = "c1"}

\* The records sent while the deadline and the clock vary: those for one chunk.
DeadlineUpdates ==
  {x \in Updates : x.source = "s1" /\ x.id = "c1"}

\* The queue manager with its owner setting the deadline and time passing.
Next ==
  \/ \E x \in DeadlineUpdates : Len(updates) < MaxDeadlineUpdates /\ ChunkUpdate(x)
  \/ \E i \in 1..Len(timers), t \in Times : processPendingChunkUpdates(i, t)
  \/ \E d \in Times \cup {NoDeadline} : SetDeadline(d)
  \/ \E t \in Times : AdvanceTime(t)

Spec == Init /\ [][Next]_vars

\* The records sent while the timers are followed to the end: those that ask
\* for a chunk to be in system or GPU memory.
ResidencyUpdates ==
  {x \in DeadlineUpdates : x.state \in {SYSTEM_MEMORY, GPU_MEMORY}}

NextFair ==
  \/ \E x \in ResidencyUpdates : Len(updates) < MaxDeadlineUpdates /\ ChunkUpdate(x)
  \/ \E i \in 1..Len(timers), t \in Times : processPendingChunkUpdates(i, t)
  \/ \E d \in Times \cup {NoDeadline} : SetDeadline(d)
  \/ \E t \in Times : AdvanceTime(t)

\* The queue manager with the timers firing: a timer that is due is not left
\* waiting for ever, and the clock does not stop before its last value.
SpecFair ==
  /\ Init
  /\ [][NextFair]_vars
  /\ WF_vars(\E i \in 1..Len(timers), t \in Times : processPendingChunkUpdates(i, t))
  /\ WF_vars(\E t \in Times : AdvanceTime(t))

\* The queue manager with chunkUpdateDeadline left at null, under every record.
NextRecords ==
  \/ \E x \in Updates : Len(updates) < MaxUpdates /\ ChunkUpdate(x)
  \/ \E i \in 1..Len(timers) : processPendingChunkUpdates(i, now)

SpecRecords == Init /\ [][NextRecords]_vars
\* The parameters objects and options objects passed to getChunkSource:
\* parameters {a, b?} written in either order, options {parameters?, x?}.
ParameterObjects ==
  {<<<<"a", Num(a)>>>> : a \in {1, 2}}
  \cup {<<<<"a", Num(a)>>, <<"b", Num(2)>>>> : a \in {1, 2}}
  \cup {<<<<"b", Num(2)>>, <<"a", Num(a)>>>> : a \in {1, 2}}

OptionObjects ==
  LET ps == {<<>>} \cup {<<<<"parameters", Obj(p)>>>> : p \in ParameterObjects}
      xs == {<<>>} \cup {<<<<"x", Num(n)>>>> : n \in {1, 2}}
  IN {p \o x : p \in ps, x \in xs}

\* The chunk manager under getChunkSource calls.
NextManager ==
  \E c \in Constructors, o \in OptionObjects :
    Len(sourceCalls) < MaxCalls /\ getChunkSource(c, o)

SpecManager == Init /\ [][NextManager]_vars
\* ---------------------------------------------------------------- claims
Range(f) == {f[i] : i \in DOMAIN f}

\* A timer callback runs in this step.
DrainTick == \E i \in 1..Len(timers), t \in Times : processPendingChunkUpdates(i, t)
\* The test at the top of processPendingChunkUpdates.
PastDeadline == chunkUpdateDeadline # NoDeadline /\ now > chunkUpdateDeadline
\* The queue from head to tail, following nextUpdate.
RECURSIVE QueueFrom(_)
QueueFrom(u) == IF u = Null THEN <<>> ELSE <<u>> \o QueueFrom(updates[u].nextUpdate)
\* Some chunk object is in GPU memory after the step and was not before.
EnteredGPU ==
  \E s \in Sources : \E k \in DOMAIN chunks'[s] :
    /\ chunks'[s][k].state = GPU_MEMORY
    /\ ~(k \in DOMAIN chunks[s] /\ chunks[s][k] = chunks'[s][k])

\* C1: records are applied in exactly the order in which they were
\* received, whatever source each belongs to: the k-th record applied is
\* the k-th record received.
C1_AppliedInArrivalOrder == \A k \in DOMAIN applied : applied[k] = k

\* Three records of more than one source, queued behind one another, applied.
C1_Witness ==
  /\ Len(applied) = 3
  /\ updates[1].nextUpdate = 2
  /\ updates[2].nextUpdate = 3
  /\ \E i, j \in DOMAIN applied : updates[applied[i]].source # updates[applied[j]].source

\* C2: a timer callback that runs while the deadline is set and the time is
\* past it starts no copy to the GPU and sets one timer of chunkUpdateDelay.
C2_PastDeadlineDefers ==
  [][\A i \in 1..Len(timers), t \in Times :
       processPendingChunkUpdates(i, t) /\ PastDeadline =>
         /\ ~EnteredGPU
         /\ "copyToGPU" \notin Range(lastTick'.calls)
         /\ dispatchCount' = dispatchCount
         /\ timers' = Append(RemoveAt(timers, i),
                             [delay |-> chunkUpdateDelay, due |-> now + chunkUpdateDelay])]_vars

\* A deferred callback with a record at the head that asks for GPU memory.
C2_Witness ==
  /\ lastTick.kind = "deferred"
  /\ lastTick.update # Null
  /\ updates[lastTick.update].state = GPU_MEMORY
  /\ \E i \in DOMAIN timers : timers[i].delay = chunkUpdateDelay

\* C3: a callback that defers leaves the queue, the chunk maps, the chunk
\* states and the capacities as they were and dispatches nothing.
C3_DeferLeavesStateUnchanged ==
  [][DrainTick /\ PastDeadline =>
       /\ UNCHANGED <<updates, pendingChunkUpdates, pendingChunkUpdatesTail>>
       /\ QueueFrom(pendingChunkUpdates)' = QueueFrom(pendingChunkUpdates)
       /\ UNCHANGED <<chunks, capacities, dispatchCount, applied, thrown>>]_vars

\* A deferred callback with two records waiting.
C3_Witness ==
  /\ lastTick.kind = "deferred"
  /\ Len(QueueFrom(pendingChunkUpdates)) >= 2
  /\ pendingChunkUpdates = lastTick.update

\* The records that refer to chunk k of source s.
Refs(s, k) == {i \in DOMAIN updates : updates[i].source = s /\ updates[i].id = k}
Last(S) == CHOOSE i \in S : \A j \in S : j <= i
\* The first record for a chunk is flagged new, none follows its EXPIRED
\* record, and every target state is one the switch handles.
WellFormed ==
  \A i \in DOMAIN updates :
    LET earlier == {j \in Refs(updates[i].source, updates[i].id) : j < i} IN
    /\ updates[i].state \in {SYSTEM_MEMORY, GPU_MEMORY, EXPIRED}
    /\ earlier = {} => updates[i].new
    /\ \A j \in earlier : updates[j].state # EXPIRED
Drained == pendingChunkUpdates = Null /\ Len(applied) = Len(updates)

\* C4: once a well-formed sequence of records has been processed to the
\* end, a chunk whose last record is EXPIRED is not in its source, any
\* other chunk referred to is there in the state its last record names,
\* and a chunk never referred to is not there.
C4_FinalStateIsLastRecord ==
  WellFormed /\ Drained =>
    \A s \in Sources, k \in ChunkIds :
      LET refs == Refs(s, k) IN
      IF refs = {} \/ updates[Last(refs)].state = EXPIRED
      THEN k \notin DOMAIN chunks[s]
      ELSE k \in DOMAIN chunks[s] /\ chunks[s][k].state = updates[Last(refs)].state

\* Three well-formed records processed: a chunk brought to the GPU and back
\* to system memory, with another chunk's record in between or around.
C4_Witness ==
  /\ WellFormed /\ Drained /\ Len(updates) = 3
  /\ \E s \in Sources, k \in ChunkIds :
       /\ Cardinality(Refs(s, k)) = 2
       /\ k \in DOMAIN chunks[s]
       /\ chunks[s][k].state = SYSTEM_MEMORY
       /\ \E i \in Refs(s, k) : updates[i].state = GPU_MEMORY

\* C5: every step dispatches visibleChunksChanged once if it brings a chunk
\* from another state into GPU memory and not at all otherwise (a chunk
\* sent back to system memory, an EXPIRED record, a deferred callback, a
\* record naming the state the chunk is in).
C5_DispatchOncePerPromotion ==
  [][dispatchCount' = dispatchCount + (IF EnteredGPU THEN 1 ELSE 0)]_vars

\* A chunk made and copied to the GPU, one dispatch, then freed, none.
C5_Witness ==
  /\ applied = <<1, 2>>
  /\ updates[1].state = GPU_MEMORY
  /\ "freeGPUMemory" \in Range(lastTick.calls)
  /\ dispatchCount = 1

LastChunk ==
  LET update == updates[lastTick.update] IN chunks[update.source][update.id]

RECURSIVE StructurallyEqual(_, _)
StructurallyEqual(v, w) ==
  /\ v.t = w.t
  /\ v.t = "num" => v.n = w.n
  /\ v.t = "str" => v.s = w.s
  /\ v.t = "obj" =>
       /\ Keys(v.o) = Keys(w.o)
       /\ \A k \in Keys(v.o) : StructurallyEqual(Get(v.o, k), Get(w.o, k))

\* C7: of two getChunkSource calls with the same constructor and options
\* equal in structure, the second returns the source the first returned,
\* and constructs nothing.
C7_EqualOptionsShareSource ==
  \A i, j \in DOMAIN sourceCalls :
    (/\ i < j
     /\ sourceCalls[i].constructorFunction = sourceCalls[j].constructorFunction
     /\ StructurallyEqual(Obj(sourceCalls[i].options), Obj(sourceCalls[j].options)))
    => /\ sourceCalls[j].source = sourceCalls[i].source
       /\ ~sourceCalls[j].isNew
       /\ Len(constructed) < Len(sourceCalls)

\* Two calls whose parameters objects were written in different orders.
C7_Witness ==
  /\ Len(sourceCalls) = 2
  /\ sourceCalls[1].constructorFunction = sourceCalls[2].constructorFunction
  /\ sourceCalls[1].constructorFunction \in WithParametersClasses
  /\ sourceCalls[1].options # sourceCalls[2].options
  /\ "parameters" \in Keys(sourceCalls[1].options)
  /\ Len(Get(sourceCalls[1].options, "parameters").o) = 2
  /\ StructurallyEqual(Obj(sourceCalls[1].options), Obj(sourceCalls[2].options))
  /\ sourceCalls[1].source = sourceCalls[2].source
  /\ Len(constructed) = 1

\* C8 as stated: calls that differ in the constructor or in any field of
\* the options return different sources.
C8_AnyDifferenceSeparates ==
  \A i, j \in DOMAIN sourceCalls :
    (\/ sourceCalls[i].constructorFunction # sourceCalls[j].constructorFunction
     \/ ~StructurallyEqual(Obj(sourceCalls[i].options), Obj(sourceCalls[j].options)))
    => sourceCalls[i].source # sourceCalls[j].source

\* What the constructor's encodeOptions keeps of the options.
EncodedPart(call) ==
  IF call.constructorFunction \in WithParametersClasses
  THEN Get(call.options, "parameters")
  ELSE Undefined

\* C8, amended: two calls return different sources exactly when they differ
\* in the constructor or in what its encodeOptions encodes: nothing for
\* ChunkSource, options.parameters for a WithParameters class.
C8_EncodedDifferenceSeparates ==
  \A i, j \in DOMAIN sourceCalls :
    sourceCalls[i].source # sourceCalls[j].source
    <=> \/ sourceCalls[i].constructorFunction # sourceCalls[j].constructorFunction
        \/ ~StructurallyEqual(EncodedPart(sourceCalls[i]), EncodedPart(sourceCalls[j]))

\* Two calls with one WithParameters class whose parameters differ in one
\* value, and two sources.
C8_Witness ==
  /\ Len(sourceCalls) = 2
  /\ sourceCalls[1].constructorFunction = sourceCalls[2].constructorFunction
  /\ sourceCalls[1].constructorFunction \in WithParametersClasses
  /\ Keys(sourceCalls[1].options) = Keys(sourceCalls[2].options)
  /\ "parameters" \in Keys(sourceCalls[1].options)
  /\ Keys(EncodedPart(sourceCalls[1]).o) = Keys(EncodedPart(sourceCalls[2]).o)
  /\ ~StructurallyEqual(EncodedPart(sourceCalls[1]), EncodedPart(sourceCalls[2]))
  /\ sourceCalls[1].source # sourceCalls[2].source

\* The record at the head of the queue.
HeadUpdate == updates[pendingChunkUpdates]

\* C9: a callback that processes an EXPIRED record removes the key from the
\* record's source and changes nothing else in the chunk maps, whatever
\* state the chunk was in; it does not call freeGPUMemory and dispatches
\* nothing.
C9_ExpiredRemovesChunk ==
  [][DrainTick /\ ~PastDeadline /\ pendingChunkUpdates # Null /\ HeadUpdate.state = EXPIRED =>
       LET s == HeadUpdate.source
           k == HeadUpdate.id
       IN
       /\ k \notin DOMAIN chunks'[s]
       /\ DOMAIN chunks'[s] = (DOMAIN chunks[s]) \ {k}
       /\ \A j \in DOMAIN chunks'[s] : chunks'[s][j] = chunks[s][j]
       /\ \A o \in Sources \ {s} : chunks'[o] = chunks[o]
       /\ "freeGPUMemory" \notin Range(lastTick'.calls)
       /\ dispatchCount' = dispatchCount
       /\ lastTick'.kind = "applied"]_vars

\* An EXPIRED record processed for a chunk that was in GPU memory.
C9_Witness ==
  /\ lastTick.kind = "applied"
  /\ updates[lastTick.update].state = EXPIRED
  /\ lastTick.old = GPU_MEMORY
  /\ updates[lastTick.update].id \notin DOMAIN chunks[updates[lastTick.update].source]

\* C10: a callback that processes a record flagged new with state EXPIRED
\* does not call getChunk or addChunk; the key is not in the source
\* afterwards, and if it was not there before the chunk maps are unchanged.
C10_NewExpiredCreatesNothing ==
  [][DrainTick /\ ~PastDeadline /\ pendingChunkUpdates # Null
       /\ HeadUpdate.state = EXPIRED /\ HeadUpdate.new =>
       LET s == HeadUpdate.source
           k == HeadUpdate.id
       IN
       /\ "getChunk" \notin Range(lastTick'.calls)
       /\ "addChunk" \notin Range(lastTick'.calls)
       /\ k \notin DOMAIN chunks'[s]
       /\ k \notin DOMAIN chunks[s] => chunks' = chunks]_vars

\* A new EXPIRED record processed for a key its source did not hold, with
\* another chunk in the source.
C10_Witness ==
  /\ lastTick.kind = "applied"
  /\ updates[lastTick.update].state = EXPIRED
  /\ updates[lastTick.update].new
  /\ lastTick.old = "absent"
  /\ chunks[updates[lastTick.update].source] # <<>>

\* The states the switch in processPendingChunkUpdates handles, and EXPIRED.
HandledStates == {SYSTEM_MEMORY, GPU_MEMORY, EXPIRED}
\* The error thrown by the default branch of the switch.
InvalidChunkState == "INTERNAL ERROR: Invalid chunk state"

\* C11: a record whose state is none of SYSTEM_MEMORY, GPU_MEMORY, EXPIRED
\* never counts as applied and never leaves the queue; the callback that
\* processes it throws and leaves it at the head; and no chunk ever has a
\* state other than SYSTEM_MEMORY or GPU_MEMORY.
C11_InvalidStateIsFatal ==
  /\ \A s \in Sources : \A k \in DOMAIN chunks[s] :
       chunks[s][k].state \in {SYSTEM_MEMORY, GPU_MEMORY}
  /\ \A u \in DOMAIN updates :
       updates[u].state \notin HandledStates =>
         /\ u \notin Range(applied)
         /\ u \in Range(QueueFrom(pendingChunkUpdates))
         /\ lastTick.update = u /\ lastTick.kind # "deferred" =>
              /\ lastTick.kind = "threw"
              /\ thrown # <<>>
              /\ thrown[Len(thrown)] = lastTick.error
              /\ pendingChunkUpdates = u

\* The default branch of the switch threw for a record of a chunk that was
\* in GPU memory, and the chunk is still in GPU memory.
C11_Witness ==
  /\ lastTick.kind = "threw"
  /\ lastTick.error = InvalidChunkState
  /\ ~updates[lastTick.update].new
  /\ lastTick.old = GPU_MEMORY
  /\ chunks[updates[lastTick.update].source][updates[lastTick.update].id].state = GPU_MEMORY

\* The error thrown by ChunkSource.getChunk.
NotImplemented == "Not implemented."

\* C12: a record flagged new, with a state other than EXPIRED, for a source
\* whose class does not override getChunk is never applied: the callback
\* that processes it throws 'Not implemented.' without calling addChunk and
\* leaves it at the head, and such a source never holds a chunk.
C12_DefaultFactoryThrows ==
  /\ \A s \in Sources \ OverridesGetChunk : chunks[s] = <<>>
  /\ \A u \in DOMAIN updates :
       updates[u].new /\ updates[u].state # EXPIRED
         /\ updates[u].source \notin OverridesGetChunk =>
         /\ u \notin Range(applied)
         /\ lastTick.update = u /\ lastTick.kind # "deferred" =>
              /\ lastTick.kind = "threw"
              /\ lastTick.error = NotImplemented
              /\ thrown = <<NotImplemented>>
              /\ lastTick.calls = <<"getChunk">>
              /\ pendingChunkUpdates = u

\* ChunkSource.getChunk threw for a new record that asks for GPU memory,
\* after a record of another source had been applied.
C12_Witness ==
  /\ lastTick.kind = "threw"
  /\ lastTick.error = NotImplemented
  /\ updates[lastTick.update].new
  /\ updates[lastTick.update].state = GPU_MEMORY
  /\ applied # <<>>

\* The records waiting, head first.
Pending == QueueFrom(pendingChunkUpdates)

\* C13 as stated (violated): every callback that is not deferred takes
\* exactly one record off the head of the queue.
C13_EveryTickRemovesHead ==
  [][DrainTick /\ ~PastDeadline =>
       /\ Len(Pending) = Len(Pending') + 1
       /\ Pending' = Tail(Pending)]_vars

\* C13 (amended): the deadline is tested when a callback starts, whatever
\* the callback before it did: past the deadline the callback takes nothing
\* off the queue; otherwise it either throws, and takes nothing off the
\* queue, or takes exactly the head record off and counts it as applied.
C13_TickRemovesHeadUnlessThrown ==
  [][DrainTick =>
       IF PastDeadline THEN
         /\ lastTick'.kind = "deferred"
         /\ Pending' = Pending
         /\ applied' = applied
         /\ thrown' = thrown
       ELSE IF thrown' # thrown THEN
         /\ lastTick'.kind = "threw"
         /\ Pending' = Pending
         /\ applied' = applied
       ELSE
         /\ lastTick'.kind = "applied"
         /\ Pending # <<>>
         /\ Pending' = Tail(Pending)
         /\ applied' = Append(applied, Head(Pending))]_vars

\* A callback has applied the first of two queued records while a deadline
\* was set, and the second is still queued.
C13_Witness ==
  /\ lastTick.kind = "applied"
  /\ chunkUpdateDeadline # NoDeadline
  /\ applied = <<1>>
  /\ Pending = <<2>>

\* C14: in every reachable state at most one timer for
\* processPendingChunkUpdates is outstanding.
C14_AtMostOneTimer == Len(timers) <= 1

\* A record arrived while the timer set by a deferred callback was
\* outstanding: two records wait and there is one timer.
C14_Witness ==
  /\ lastTick.kind = "deferred"
  /\ Len(Pending) = 2
  /\ updates[1].nextUpdate = 2
  /\ Len(timers) = 1
  /\ timers[1].delay = chunkUpdateDelay

\* The records received so far, in the order of arrival.
Received == [k \in 1..Len(updates) |-> k]

\* C15: as long as no callback has thrown, every record received is either
\* applied, once, or waiting in the queue, once, and never both: the
\* records applied followed by the records waiting are the records
\* received, in order. When no timer is outstanding they have all been
\* applied.
C15_AppliedExactlyOnce ==
  thrown = <<>> =>
    /\ applied \o Pending = Received
    /\ timers = <<>> => applied = Received

\* Two records, the second received while the first waited, both applied
\* with a deadline set and time having passed; no callback threw.
C15_Witness ==
  /\ thrown = <<>>
  /\ applied = <<1, 2>>
  /\ updates[1].nextUpdate = 2
  /\ timers = <<>>
  /\ chunkUpdateDeadline # NoDeadline
  /\ now > 0

\* The last value of the clock.
LastTime == MaxTicks * chunkUpdateDelay
\* Every outstanding timer falls due while the clock runs.
TimersFallDue == \A i \in DOMAIN timers : timers[i].due <= LastTime
\* Nothing waits and every record received has been applied.
AllApplied == Pending = <<>> /\ applied = Received

\* C16: with timers firing and time passing, if from some point on the
\* deadline is null or not in the past, no callback ever throws, and every
\* timer falls due while the clock runs, then from some point on the queue
\* is empty and every record received has been applied.
C16_EventuallyAllApplied ==
  (<>[](~PastDeadline) /\ [](thrown = <<>>) /\ []TimersFallDue) => <>[]AllApplied

\* A callback was deferred with a record waiting, its timer falls due while
\* the clock runs, and the deadline is no longer in the past.
C16_Witness ==
  /\ lastTick.kind = "deferred"
  /\ Pending # <<>>
  /\ ~PastDeadline
  /\ thrown = <<>>
  /\ timers # <<>>
  /\ TimersFallDue

\* A record arrives in this step.
Arrival == Len(updates') = Len(updates) + 1
\* The delay scheduleChunkUpdate chooses in the state after the step.
DelayAfter ==
  IF chunkUpdateDeadline' = NoDeadline \/ now' < chunkUpdateDeadline' THEN 0
  ELSE chunkUpdateDelay

\* C17 as stated (violated): a callback that applies a record sets a timer
\* of delay zero if a record is left and no timer otherwise.
C17_NextTickHasZeroDelay ==
  [][DrainTick /\ lastTick'.kind = "applied" =>
       IF Pending' # <<>> THEN timers' = <<[delay |-> 0, due |-> now']>>
       ELSE timers' = <<>>]_vars

\* C17 (amended): a callback that applies a record sets, if a record is
\* left, one timer whose delay is zero when the deadline is null or later
\* than the time at which the timer is set, and chunkUpdateDelay otherwise;
\* if none is left it sets no timer. With no timer and nothing waiting, a
\* timer appears only when a record arrives, and that arrival sets one.
C17_NextTickFollowsDeadline ==
  [][/\ DrainTick /\ lastTick'.kind = "applied" =>
          IF Pending' # <<>>
          THEN timers' = <<[delay |-> DelayAfter, due |-> now' + DelayAfter]>>
          ELSE timers' = <<>>
     /\ timers = <<>> /\ Pending = <<>> =>
          /\ timers' # <<>> => Arrival
          /\ Arrival => timers' = <<[delay |-> DelayAfter, due |-> now' + DelayAfter]>>]_vars

\* A callback applied the first of two records when the deadline was no
\* longer ahead, and set a timer of chunkUpdateDelay for the second.
C17_Witness ==
  /\ lastTick.kind = "applied"
  /\ applied = <<1>>
  /\ Pending = <<2>>
  /\ chunkUpdateDeadline # NoDeadline
  /\ now >= chunkUpdateDeadline
  /\ timers = <<[delay |-> chunkUpdateDelay, due |-> now + chunkUpdateDelay]>>

\* C18: the head of the queue is null exactly when the tail is null; as
\* long as no callback has thrown, a timer is outstanding exactly when the
\* queue is not empty; and every callback that ran found a record at the
\* head.
C18_QueueAndTimerAgree ==
  /\ (pendingChunkUpdates = Null) <=> (pendingChunkUpdatesTail = Null)
  /\ thrown = <<>> => ((timers # <<>>) <=> (pendingChunkUpdates # Null))
  /\ lastTick.kind # "none" => lastTick.update # Null

\* Two records were applied and the queue is empty again: head and tail
\* are null and no timer is outstanding.
C18_Witness ==
  /\ lastTick.kind = "applied"
  /\ applied = <<1, 2>>
  /\ thrown = <<>>
  /\ pendingChunkUpdates = Null
  /\ pendingChunkUpdatesTail = Null
  /\ timers = <<>>

\* C19: once a callback has thrown, the record it processed is at the head
\* of the queue and stays there, no timer is outstanding, the tail is not
\* null and every record received since is linked behind it; the records
\* applied are those received before the offending record, and no callback
\* has run since.
C19_ThrowStallsQueue ==
  thrown # <<>> =>
    /\ Len(thrown) = 1
    /\ timers = <<>>
    /\ lastTick.kind = "threw"
    /\ lastTick.error = thrown[1]
    /\ lastTick.update # Null
    /\ pendingChunkUpdates = lastTick.update
    /\ pendingChunkUpdatesTail = Len(updates)
    /\ applied = [k \in 1..(lastTick.update - 1) |-> k]
    /\ Pending = [k \in 1..(Len(updates) - Len(applied)) |-> Len(applied) + k]

\* The second of three records was for a chunk its source does not hold:
\* the callback threw, the first record is applied, the second and third
\* wait and no timer is outstanding.
C19_Witness ==
  /\ thrown = <<"TypeError">>
  /\ applied = <<1>>
  /\ Pending = <<2, 3>>
  /\ pendingChunkUpdatesTail = 3
  /\ timers = <<>>

\* C20: when the default branch of the switch has thrown for a record
\* flagged new, getChunk and addChunk had been called: the source holds,
\* under the record's key, the chunk made for this record, in system
\* memory, in place of whatever it held before, and the record is still at
\* the head.
C20_NewInvalidKeepsInsertedChunk ==
  lastTick.kind = "threw" /\ lastTick.error = InvalidChunkState
    /\ updates[lastTick.update].new =>
    LET u == lastTick.update
        s == updates[u].source
        k == updates[u].id
    IN
    /\ lastTick.calls = <<"getChunk", "addChunk">>
    /\ k \in DOMAIN chunks[s]
    /\ chunks[s][k] = NewChunk(s, u)
    /\ chunks[s][k].state = SYSTEM_MEMORY
    /\ pendingChunkUpdates = u
    /\ u \notin Range(applied)

\* The default branch threw for a new record under a key whose chunk was
\* in GPU memory: the source now holds the new chunk, in system memory.
C20_Witness ==
  /\ lastTick.kind = "threw"
  /\ lastTick.error = InvalidChunkState
  /\ updates[lastTick.update].new
  /\ lastTick.old = GPU_MEMORY
  /\ chunks[updates[lastTick.update].source][updates[lastTick.update].id].uid
       = lastTick.update
====
